---- MODULE Spec2Model ----
(***************************************************************************)
(* Model of the NetBox connector: the API client (netbox_client.py) with   *)
(* its pagination-transparent generator iter_resource, get_first and       *)
(* get_by_id, and the enrichment command built on it                       *)
(* (netbox_lookup_command.py).  The NetBox server is the environment: each *)
(* HTTP request is answered by a response drawn from a small set.          *)
(***************************************************************************)
EXTENDS Integers, Sequences, FiniteSets, TLC

\* ------------------------------------------------------------------ bounds
MaxPage == 2        \* longest `results` / bare list the server sends
MaxRequests == 3    \* cap on the HTTP requests of one run
MaxRecords == 3     \* cap on the input records of one enrichment run

\* ------------------------------------------------- JSON values (Python side)
\* A scalar is its type and its text; Absent marks a key a mapping lacks.
JNull == [ty |-> "null", v |-> "null"]
JStr(text) == [ty |-> "str", v |-> text]
JNum(text) == [ty |-> "num", v |-> text]
JBool(text) == [ty |-> "bool", v |-> text]
Absent == [ty |-> "absent", v |-> ""]

\* The scalar-valued keys a mapping of the model may carry.
FieldKeys ==
    {"next", "name", "site", "detail", "raw", "last_updated", "last_update", "created"}

NoVals == [k \in FieldKeys |-> Absent]

\* A parsed JSON value.  t: "object", "array" or "scalar"; an object has the
\* key `results` (value seq) iff hasResults, and key k iff vals[k] # Absent.
Obj(hasResults, seq, vals) ==
    [t |-> "object", s |-> Absent, seq |-> seq, hasResults |-> hasResults, vals |-> vals]

Arr(seq) ==
    [t |-> "array", s |-> Absent, seq |-> seq, hasResults |-> FALSE, vals |-> NoVals]

Sca(s) ==
    [t |-> "scalar", s |-> s, seq |-> <<>>, hasResults |-> FALSE, vals |-> NoVals]

\* A response body that is not JSON: only its text exists.
NonJSON(text) ==
    [t |-> "nonjson", s |-> JStr(text), seq |-> <<>>, hasResults |-> FALSE, vals |-> NoVals]

\* Python None; json() maps JSON null to it.
PyNone == Sca(JNull)

EmptyDict == Obj(FALSE, <<>>, NoVals)

\* {"raw": text}
RawDict(text) == Obj(FALSE, <<>>, [NoVals EXCEPT !["raw"] = JStr(text)])

\* The key set of a mapping (dict.keys()).
Keys(d) == {k \in FieldKeys : d.vals[k] # Absent} \cup (IF d.hasResults THEN {"results"} ELSE {})

\* Mutation: only None counts as "no value"; an empty string is a value.
TruthyScalar_EmptyStringTrue(s) ==
    CASE s.ty = "null" -> FALSE
      [] s.ty = "absent" -> FALSE
      [] s.ty = "str" -> TRUE
      [] s.ty = "num" -> s.v # "0"
      [] s.ty = "bool" -> s.v = "true"

\* Python truthiness of a scalar and of a parsed value.
TruthyScalar(s) ==
    CASE s.ty = "null" -> FALSE
      [] s.ty = "absent" -> FALSE
      [] s.ty = "str" -> s.v # ""
      [] s.ty = "num" -> s.v # "0"
      [] s.ty = "bool" -> s.v = "true"

Truthy(d) ==
    CASE d.t = "object" -> Keys(d) # {}
      [] d.t = "array" -> d.seq # <<>>
      [] d.t = "scalar" -> TruthyScalar(d.s)
      [] OTHER -> TRUE

\* dict.get(k) for a scalar-valued key: None when the key is missing.
Get(d, k) == IF d.vals[k] = Absent THEN JNull ELSE d.vals[k]

\* json.dumps of a scalar.
DumpsScalar(s) ==
    CASE s.ty = "str" -> "\"" \o s.v \o "\""
      [] OTHER -> s.v

\* The order in which a mapping of the model lists its scalar keys.
KeyOrder ==
    <<"name", "site", "next", "detail", "raw", "last_updated", "last_update", "created">>

\* json.dumps(payload, ensure_ascii=False) of a mapping of scalars: the
\* members "key": value of the keys ks, joined by ", ".
RECURSIVE DumpsMembers(_, _, _)
DumpsMembers(d, ks, sep) ==
    IF ks = <<>> THEN ""
    ELSE IF d.vals[Head(ks)] = Absent THEN DumpsMembers(d, Tail(ks), sep)
    ELSE sep \o "\"" \o Head(ks) \o "\": " \o DumpsScalar(d.vals[Head(ks)])
             \o DumpsMembers(d, Tail(ks), ", ")

Dumps(d) ==
    IF d.t = "scalar" THEN DumpsScalar(d.s) ELSE "{" \o DumpsMembers(d, KeyOrder, "") \o "}"

\* str(value) of a scalar.
Str(s) ==
    CASE s.ty = "null" -> "None"
      [] s.ty = "bool" -> (IF s.v = "true" THEN "True" ELSE "False")
      [] OTHER -> s.v

\* ------------------------------------------------------------------ URLs
BaseUrl == "http://nb/api/"

\* str.endswith('/') on the base URLs of the model.
EndsWithSlash(u) == u = BaseUrl

\* __post_init__, lines 33-34: the base URL gets its trailing separator.
Normalised(u) == IF ~EndsWithSlash(u) THEN u \o "/" ELSE u

ResourcePath == "dcim/devices"
CursorAbs == "http://nb/api/dcim/devices/?offset=2"
CursorRel == "/dcim/devices/?offset=4"
ObjectId == "7"

\* str.lstrip('/') on the strings of the model.
LStrip(p) ==
    CASE p = CursorRel -> "dcim/devices/?offset=4"
      [] p = "/dcim/devices" -> "dcim/devices"
      [] p = "/" -> ""
      [] OTHER -> p

\* str.rstrip('/') on the strings of the model.
RStrip(p) ==
    CASE p = "dcim/devices/" -> "dcim/devices"
      [] OTHER -> p

\* urljoin(base, path): an absolute URL replaces the base, a relative path is
\* resolved against the base (which ends with '/').
UrlJoin(base, p) ==
    IF p = CursorAbs THEN p ELSE base \o p

\* ------------------------------------------------------------ parameters
\* Optional[Dict]: None, or a mapping given as its set of <<key, value>>.
ParamsNone == [none |-> TRUE, kv |-> {}]
ParamsDict(kv) == [none |-> FALSE, kv |-> kv]
CallerParams == {ParamsNone, ParamsDict({}), ParamsDict({<<"site", "nyc">>})}

\* dict(params or {})
DictOrEmpty(p) == ParamsDict(IF p.none THEN {} ELSE p.kv)

\* ------------------------------------------------------------ the server
ItemA == Obj(FALSE, <<>>, [NoVals EXCEPT !["name"] = JStr("sw1"), !["site"] = JStr("nyc")])
ItemB == Obj(FALSE, <<>>, [NoVals EXCEPT !["name"] = JStr("sw2")])
Items == {ItemA, ItemB}

RECURSIVE SeqsUpTo(_, _)
SeqsUpTo(S, n) ==
    IF n = 0 THEN {<<>>}
    ELSE LET shorter == SeqsUpTo(S, n - 1)
         IN shorter \cup {Append(q, x) : q \in {r \in shorter : Len(r) = n - 1}, x \in S}

PageSeqs == SeqsUpTo(Items, MaxPage)

NextVals == {JNull, JStr(""), JStr(CursorAbs), JStr(CursorRel)}

\* Mappings with both `results` and `next`.
EnvelopeBodies ==
    {Obj(TRUE, q, [NoVals EXCEPT !["next"] = n]) : q \in PageSeqs, n \in NextVals}

\* Mappings that lack one of the two keys.
PlainBodies ==
    {ItemA, EmptyDict,
     Obj(TRUE, <<ItemA>>, NoVals),
     Obj(FALSE, <<>>, [NoVals EXCEPT !["next"] = JStr(CursorAbs)])}

ListBodies == {Arr(q) : q \in PageSeqs}

ScalarBodies == {Sca(JNull), Sca(JNum("0")), Sca(JNum("7")), Sca(JStr("ok")), Sca(JBool("true"))}

HtmlText == "<html>"

SuccessBodies ==
    EnvelopeBodies \cup PlainBodies \cup ListBodies \cup ScalarBodies \cup {NonJSON(HtmlText)}

DetailBody == Obj(FALSE, <<>>, [NoVals EXCEPT !["detail"] = JStr("Not found.")])

ErrorBodies == {DetailBody, EmptyDict, Sca(JNull), NonJSON(HtmlText)}

Responses ==
    [status : {200}, body : SuccessBodies] \cup [status : {404, 500}, body : ErrorBodies]

\* The responses of the NetBox instance an enrichment run talks to.
LookupBodies ==
    {Obj(TRUE, <<>>, [NoVals EXCEPT !["next"] = JNull]),
     Obj(TRUE, <<>>, [NoVals EXCEPT !["next"] = JStr(CursorAbs)]),
     Obj(TRUE, <<ItemA>>, [NoVals EXCEPT !["next"] = JNull]),
     Obj(TRUE, <<ItemB, ItemA>>, [NoVals EXCEPT !["next"] = JStr(CursorAbs)]),
     Obj(TRUE, <<EmptyDict>>, [NoVals EXCEPT !["next"] = JNull]),
     Arr(<<ItemA>>),
     Sca(JNum("7"))}

LookupResponses ==
    [status : {200}, body : LookupBodies]
        \cup {[status |-> 404, body |-> DetailBody], [status |-> 500, body |-> NonJSON(HtmlText)]}

\* Timestamp texts an API record may carry.
TimeFrac == "2024-01-02T03:04:05.250000+00:00"
TimeWhole == "2024-01-02T03:04:06+00:00"
TimePadded == " 2024-01-02T03:04:06+00:00 "
TimeBad == "yesterday"

\* API records with timestamps: one whose last_updated parses, one whose name
\* is not a string and whose only parsing timestamp is `created`.
ItemT1 ==
    Obj(FALSE, <<>>, [NoVals EXCEPT !["name"] = JStr("sw1"), !["last_updated"] = JStr(TimeFrac),
                                    !["created"] = JStr(TimeWhole)])
ItemT2 ==
    Obj(FALSE, <<>>, [NoVals EXCEPT !["name"] = JNum("7"), !["last_updated"] = JStr(TimeBad),
                                    !["created"] = JStr(TimePadded)])

\* The responses of the NetBox instance an export job talks to.
ExportBodies ==
    {Obj(TRUE, <<ItemT1, ItemT2>>, [NoVals EXCEPT !["next"] = JStr(CursorAbs)]),
     Obj(TRUE, <<ItemB>>, [NoVals EXCEPT !["next"] = JStr(CursorRel)]),
     Obj(TRUE, <<ItemT2>>, [NoVals EXCEPT !["next"] = JNull]),
     Obj(TRUE, <<>>, [NoVals EXCEPT !["next"] = JStr(CursorAbs)]),
     Obj(TRUE, <<ItemB>>, [NoVals EXCEPT !["next"] = JStr("")]),
     Arr(<<ItemT1, ItemB>>),
     ItemT1,
     Sca(JNum("7")),
     NonJSON(HtmlText)}

ExportResponses ==
    [status : {200}, body : ExportBodies]
        \cup {[status |-> 404, body |-> DetailBody], [status |-> 500, body |-> NonJSON(HtmlText)]}

\* The responses the NetBox instance of a run can give: an enrichment run and
\* an export job talk to smaller instances.
Server(m) ==
    CASE m = "lookup" -> LookupResponses
      [] m = "export" -> ExportResponses
      [] OTHER -> Responses

\* requests.Response.ok
Ok(resp) == resp.status < 400

\* ---------------------------------------------------------------- errors
NoStatus == 0       \* status=None
MsgStatus == "NetBox API request failed with status"
MsgNonJson == "NetBox API returned non JSON response"
MsgStructure == "Unexpected response structure from NetBox"

NoError == [type |-> "", message |-> "", status |-> NoStatus, payload |-> EmptyDict]

\* NetBoxAPIError(message, status, payload): payload or {}
NetBoxAPIError(message, status, payload) ==
    [type |-> "NetBoxAPIError", message |-> message, status |-> status,
     payload |-> IF Truthy(payload) THEN payload ELSE EmptyDict]

ValueError(message) ==
    [type |-> "ValueError", message |-> message, status |-> NoStatus, payload |-> EmptyDict]

\* ------------------------------------------- NetBoxLookupCommand options
MatchField == "host"        \* option match_field
NetboxField == "name"       \* option netbox_field

\* int(self.timeout) succeeds on these option texts.
IsIntText(t) == t \in {"60", "5"}

\* json.loads(self.query) on the option texts of the model: the parsed
\* mapping, or why _base_filters raises.
QueryObject == "{\"site\": \"nyc\"}"
QueryArray == "[1]"
QueryBroken == "{site"
BaseFilters(query) ==
    CASE query = "" -> [ok |-> TRUE, kv |-> {}]
      [] query = QueryObject -> [ok |-> TRUE, kv |-> {<<"site", "nyc">>}]
      [] OTHER -> [ok |-> FALSE, kv |-> {}]

\* str.strip() on the texts of the model.
Strip(part) ==
    CASE part = " name" -> "name"
      [] part = " " -> ""
      [] part = TimePadded -> TimeWhole
      [] OTHER -> part

\* _parse_fields, on the option already split at its commas; an option that
\* is None or empty has no parts.  list(... or []) of the result.
ParseFields(parts) ==
    LET stripped == [i \in 1..Len(parts) |-> Strip(parts[i])]
    IN SelectSeq(stripped, LAMBDA part : part # "")

\* One invocation's options (a stanza of the modular input has no `fields`).
Options(url, resource, timeout, query, fields) ==
    [netbox_url |-> url, resource |-> resource, timeout |-> timeout, query |-> query,
     fields |-> fields]

SlashResource == "/dcim/devices"

DefaultOptions == Options("http://nb/api", ResourcePath, "60", "", <<>>)

LookupOptions ==
    {DefaultOptions,
     Options(BaseUrl, ResourcePath, "5", QueryObject, <<"site", " name">>),
     Options(BaseUrl, ResourcePath, "60", "", <<" ">>),
     Options(BaseUrl, SlashResource, "60", "", <<>>),
     Options("", ResourcePath, "60", "", <<>>),
     Options(BaseUrl, ResourcePath, "abc", "", <<>>),
     Options(BaseUrl, ResourcePath, "60", QueryArray, <<>>),
     Options(BaseUrl, ResourcePath, "60", QueryBroken, <<"site">>)}

\* ------------------------------------------------------ netbox_inventory
ISO_FORMATS == <<"%Y-%m-%dT%H:%M:%S.%f%z", "%Y-%m-%dT%H:%M:%S%z">>

\* No event time: _guess_event_time returned None.
NoTime == "None"

\* datetime.strptime(text, fmt).timestamp() on the texts of the model, NoTime
\* where strptime raises ValueError: the first format needs a fraction of a
\* second, the second one has none.
Strptime(text, fmt) ==
    CASE text = TimeFrac /\ fmt = ISO_FORMATS[1] -> "1704164645.25"
      [] text = TimeWhole /\ fmt = ISO_FORMATS[2] -> "1704164646.0"
      [] OTHER -> NoTime

\* Lines 43-48: the first format that parses `text` decides.
RECURSIVE TryFormats(_, _)
TryFormats(text, fmts) ==
    IF fmts = <<>> THEN NoTime
    ELSE IF Strptime(text, Head(fmts)) # NoTime THEN Strptime(text, Head(fmts))
    ELSE TryFormats(text, Tail(fmts))

TimeKeys == <<"last_updated", "last_update", "created">>

\* Lines 38-49: the loop of _guess_event_time over the keys still to try.
RECURSIVE GuessFrom(_, _)
GuessFrom(payload, keys) ==
    IF keys = <<>> THEN NoTime
    ELSE LET value == Get(payload, Head(keys))
         IN  IF value.ty # "str" THEN GuessFrom(payload, Tail(keys))
             ELSE IF TryFormats(Strip(value.v), ISO_FORMATS) # NoTime
             THEN TryFormats(Strip(value.v), ISO_FORMATS)
             ELSE GuessFrom(payload, Tail(keys))

\* Mutation: the scan gives up after the key of highest priority.
GuessEventTime_FirstKeyOnly(payload) == GuessFrom(payload, <<TimeKeys[1]>>)

\* _guess_event_time(payload)
GuessEventTime(payload) == GuessFrom(payload, TimeKeys)

\* The payloads _guess_event_time is applied to on its own: every combination
\* of a missing, non-string, unparseable and parseable value of the three keys.
TimeValues ==
    {Absent, JNum("1704164645"), JStr(TimeBad), JStr(TimeFrac), JStr(TimeWhole), JStr(TimePadded)}
TimePayloads ==
    {Obj(FALSE, <<>>, [NoVals EXCEPT !["last_updated"] = a, !["last_update"] = b,
                                     !["created"] = c]) :
        a \in TimeValues, b \in TimeValues, c \in TimeValues}

\* _parse_json on the option texts of the model: the parsed mapping, or the
\* message of the ValueError it raises.
ParseJson(value) ==
    CASE value = "" -> [ok |-> TRUE, kv |-> {}, message |-> ""]
      [] value = " " -> [ok |-> TRUE, kv |-> {}, message |-> ""]
      [] value = QueryObject -> [ok |-> TRUE, kv |-> {<<"site", "nyc">>}, message |-> ""]
      [] value = QueryArray ->
            [ok |-> FALSE, kv |-> {},
             message |-> "Query parameters must be provided as a JSON object"]
      [] OTHER ->
            [ok |-> FALSE, kv |-> {},
             message |-> "Failed to parse JSON payload for query parameters"]

\* resource.replace('/', '_') on the resources of the model.
Replace(resource) ==
    CASE resource = ResourcePath -> "dcim_devices"
      [] resource = SlashResource -> "_dcim_devices"
      [] OTHER -> resource

\* No host was set on the event.
NoHost == "None"

\* Lines 141-151: the event stream_events builds for `item`.
EventOf(item, resource) ==
    [data |-> Dumps(item),
     sourcetype |-> "netbox:" \o Replace(resource),
     time |-> GuessEventTime(item),
     host |-> IF item.vals["name"].ty = "str" THEN item.vals["name"].v ELSE NoHost]

\* The stanza of an export job (it has no `fields`; an unset timeout or query
\* is the empty text).
ExportOptions ==
    {Options(BaseUrl, ResourcePath, "", "", <<>>),
     Options("http://nb/api", ResourcePath, "5", QueryObject, <<>>),
     Options(BaseUrl, SlashResource, "60", " ", <<>>),
     Options(BaseUrl, "", "60", "", <<>>),
     Options("", ResourcePath, "60", "", <<>>),
     Options(BaseUrl, ResourcePath, "abc", "", <<>>),
     Options(BaseUrl, ResourcePath, "60", QueryArray, <<>>),
     Options(BaseUrl, ResourcePath, "60", QueryBroken, <<>>)}

\* ------------------------------------------------------- input records
RecordKeys == {"host", "netbox", "netbox_name", "netbox_site"}

Rec(host, netbox, netbox_site) ==
    [k \in RecordKeys |->
        CASE k = "host" -> host
          [] k = "netbox" -> netbox
          [] k = "netbox_site" -> netbox_site
          [] OTHER -> Absent]

InputRecords ==
    {Rec(Absent, Absent, Absent),
     Rec(JStr(""), Absent, Absent),
     Rec(JStr("7"), Absent, Absent),
     Rec(JNum("7"), JStr("old"), JStr("old")),
     Rec(JStr("sw1"), Absent, Absent)}

\* record.get(key)
RecordGet(record, key) == IF record[key] = Absent THEN JNull ELSE record[key]

\* Lines 63-64: dict(base_filters) with params[netbox_field] = cache_key.
LookupParams(filters, key) ==
    ParamsDict({kv \in filters : kv[1] # NetboxField} \cup {<<NetboxField, key>>})

\* Mutation: the serialized API record replaces an existing `netbox` value.
Enrich_OverwritesNetbox(record, payload, field_list) ==
    IF ~Truthy(payload) THEN record
    ELSE IF field_list # <<>>
    THEN [k \in RecordKeys |->
            IF \E i \in 1..Len(field_list) : k = "netbox_" \o field_list[i]
            THEN Get(payload, CHOOSE f \in {field_list[i] : i \in 1..Len(field_list)} :
                                    k = "netbox_" \o f)
            ELSE record[k]]
    ELSE [record EXCEPT !["netbox"] = JStr(Dumps(payload))]

\* Mutation: a field the API record lacks leaves the input value in place.
Enrich_KeepsInputValue(record, payload, field_list) ==
    IF ~Truthy(payload) THEN record
    ELSE IF field_list # <<>>
    THEN [k \in RecordKeys |->
            IF \E i \in 1..Len(field_list) :
                    k = "netbox_" \o field_list[i] /\ payload.vals[field_list[i]] # Absent
            THEN Get(payload, CHOOSE f \in {field_list[i] : i \in 1..Len(field_list)} :
                                    k = "netbox_" \o f)
            ELSE record[k]]
    ELSE IF record["netbox"] = Absent
    THEN [record EXCEPT !["netbox"] = JStr(Dumps(payload))]
    ELSE record

\* Mutation: the enrichment is applied even when the lookup found nothing.
Enrich_IgnoresAbsence(record, payload, field_list) ==
    IF field_list # <<>>
    THEN [k \in RecordKeys |->
            IF \E i \in 1..Len(field_list) : k = "netbox_" \o field_list[i]
            THEN Get(payload, CHOOSE f \in {field_list[i] : i \in 1..Len(field_list)} :
                                    k = "netbox_" \o f)
            ELSE record[k]]
    ELSE IF record["netbox"] = Absent
    THEN [record EXCEPT !["netbox"] = JStr(Dumps(payload))]
    ELSE record

\* Lines 67-77: the record stream emits for `record` once the lookup gave
\* `payload`.
Enrich(record, payload, field_list) ==
    IF ~Truthy(payload) THEN record
    ELSE IF field_list # <<>>
    THEN [k \in RecordKeys |->
            IF \E i \in 1..Len(field_list) : k = "netbox_" \o field_list[i]
            THEN Get(payload, CHOOSE f \in {field_list[i] : i \in 1..Len(field_list)} :
                                    k = "netbox_" \o f)
            ELSE record[k]]
    ELSE IF record["netbox"] = Absent
    THEN [record EXCEPT !["netbox"] = JStr(Dumps(payload))]
    ELSE record

\* The newest element of a log.
Last(q) == q[Len(q)]

\* cache[key] = value
Put(c, key, value) ==
    [k \in DOMAIN c \cup {key} |-> IF k = key THEN value ELSE c[k]]

\* ----------------------------------------------------------------- state
VARIABLES
    mode,           \* the entry point this run calls: "iter", "first", "byid"
                    \*   of NetBoxClient, "lookup": NetBoxLookupCommand.stream,
                    \*   "export": a job of NetBoxInventoryInput, or "guess":
                    \*   _guess_event_time on its own
    options,        \* the options of the command, the stanza of the job
    guess_payload,  \* the argument of _guess_event_time
    base_url,       \* NetBoxClient.base_url
    params,         \* the params argument of iter_resource / get_first
    pc,             \* the caller: "start", "validated", "running", "returned",
                    \*   "raised"
    result,         \* the value the entry point returned (PyNone for None)
    error,          \* the exception that left the entry point
    yielded,        \* the records the generator handed to its consumer
    requests,       \* the HTTP requests issued, oldest first
    replies,        \* the responses received, oldest first
    gen_pc,         \* iter_resource: "none", "created", "request", "page",
                    \*   "suspended", "done", "raised", "closed"
    next_url,       \* iter_resource local next_url (a scalar)
    current_params, \* iter_resource local current_params
    data,           \* iter_resource local data
    idx,            \* position of the running `for item in ...` loop
    pulls,          \* how often the consumer asked the current generator for its
                    \*   next item
    input,          \* stream: the input records taken so far, as they arrived
    emitted,        \* stream: the records yielded so far
    cache,          \* stream local cache
    lookups,        \* stream: the cache keys get_first was called for
    events          \* stream_events: the events written to the event writer

inputVars == <<mode, options, guess_payload>>
lookupVars == <<input, emitted, cache, lookups>>
callVars == <<pc, result, error, yielded>>
httpVars == <<requests, replies>>
genVars == <<gen_pc, next_url, current_params, data, idx>>
vars == <<inputVars, base_url, params, callVars, httpVars, genVars, pulls, lookupVars, events>>

Modes == {"iter", "first", "byid", "lookup", "export", "guess"}

EmptyCache == [k \in {} |-> PyNone]

\* A client-level run starts with the client constructed; an enrichment run
\* and an export job start before stream() or validate_input / stream_events
\* has run a line.
Init ==
    /\ mode \in Modes
    /\ CASE mode = "lookup" ->
            /\ options \in LookupOptions
            /\ base_url = ""
            /\ params = ParamsNone
            /\ guess_payload = EmptyDict
         [] mode = "export" ->
            /\ options \in ExportOptions
            /\ base_url = ""
            /\ params = ParamsNone
            /\ guess_payload = EmptyDict
         [] mode = "guess" ->
            /\ options = DefaultOptions
            /\ base_url = ""
            /\ params = ParamsNone
            /\ guess_payload \in TimePayloads
         [] OTHER ->
            /\ options = DefaultOptions
            /\ base_url = Normalised(DefaultOptions.netbox_url)
            /\ params \in CallerParams
            /\ guess_payload = EmptyDict
    /\ input = <<>>
    /\ emitted = <<>>
    /\ cache = EmptyCache
    /\ lookups = <<>>
    /\ pc = "start"
    /\ result = PyNone
    /\ error = NoError
    /\ yielded = <<>>
    /\ requests = <<>>
    /\ replies = <<>>
    /\ gen_pc = "none"
    /\ next_url = JNull
    /\ current_params = ParamsNone
    /\ data = PyNone
    /\ idx = 1
    /\ pulls = 0
    /\ events = <<>>

\* ----------------------------------------------------- NetBoxClient._request
\* The request _request(method, path, params) sends.
RequestOf(base, path, prm) ==
    [path |-> path, params |-> prm, url |-> UrlJoin(base, LStrip(path))]

\* Mutation: the raw text of a non-JSON error body is kept under "raw".
ErrorPayload_RawText(resp) ==
    IF resp.body.t = "nonjson" THEN RawDict(resp.body.s.v) ELSE resp.body

\* The payload _request attaches to its error: response.json(), None on ValueError.
ErrorPayload(resp) == IF resp.body.t = "nonjson" THEN PyNone ELSE resp.body

\* Mutation: the status code is not passed to the error.
RequestError_NoStatus(resp) == NetBoxAPIError(MsgStatus, NoStatus, ErrorPayload(resp))

\* The NetBoxAPIError _request raises for a response that is not ok.
RequestError(resp) == NetBoxAPIError(MsgStatus, resp.status, ErrorPayload(resp))

\* ------------------------------------------------ NetBoxClient.iter_resource
\* Mutation: `results` alone makes an envelope.
IsEnvelope_ResultsOnly(d) == d.t = "object" /\ "results" \in Keys(d)

\* isinstance(data, dict) and {"results", "next"}.issubset(data.keys())
IsEnvelope(d) == d.t = "object" /\ {"results", "next"} \subseteq Keys(d)

\* Mutation: the loop over `results` stops one item early.
PageItems_DropsLast(d) ==
    CASE IsEnvelope(d) -> SubSeq(d.seq, 1, Len(d.seq) - 1)
      [] d.t = "array" -> d.seq
      [] d.t = "object" -> <<d>>
      [] OTHER -> <<>>

\* Mutation: a bare list is taken for a single object.
PageItems_ListAsRecord(d) ==
    CASE IsEnvelope(d) -> d.seq
      [] d.t = "array" -> <<d>>
      [] d.t = "object" -> <<d>>
      [] OTHER -> <<>>

\* The sequence the running `for item in ...` loop walks, per branch.
PageItems(d) ==
    CASE IsEnvelope(d) -> d.seq
      [] d.t = "array" -> d.seq
      [] d.t = "object" -> <<d>>
      [] OTHER -> <<>>

\* Mutation: a scalar body is accepted as an empty result.
ParseError_ScalarAccepted(resp) ==
    CASE resp.body.t = "nonjson" -> NetBoxAPIError(MsgNonJson, NoStatus, RawDict(resp.body.s.v))
      [] OTHER -> NoError

\* The exception iter_resource raises for a successful response, if any.
ParseError(resp) ==
    CASE resp.body.t = "nonjson" -> NetBoxAPIError(MsgNonJson, NoStatus, RawDict(resp.body.s.v))
      [] resp.body.t = "scalar" ->
            NetBoxAPIError(MsgStructure, NoStatus, RawDict(DumpsScalar(resp.body.s)))
      [] OTHER -> NoError

\* Mutation: a failed lookup is swallowed and remembered as "nothing found".
Raise_CachesAbsence(exc) ==
    IF mode = "lookup"
    THEN /\ gen_pc' = "done"
         /\ cache' = Put(cache, Last(lookups), PyNone)
         /\ emitted' = Append(emitted, Last(input))
         /\ UNCHANGED <<pc, error, result, yielded, input, lookups, events>>
    ELSE /\ gen_pc' = "raised"
         /\ pc' = "raised"
         /\ error' = exc
         /\ UNCHANGED <<result, yielded, lookupVars, events>>

\* An exception leaves the generator and reaches the caller of the entry point.
Raise(exc) ==
    /\ gen_pc' = "raised"
    /\ pc' = "raised"
    /\ error' = exc
    /\ UNCHANGED <<result, yielded, lookupVars, events>>

\* Mutation: the exhausted generator surfaces as an error of the caller.
Stop_Raises ==
    /\ gen_pc' = "done"
    /\ pc' = "raised"
    /\ error' = ValueError("StopIteration")
    /\ UNCHANGED <<result, yielded, lookupVars, events>>

\* Mutation: a record whose lookup found nothing is dropped from the output.
LookupReturns_DropsUnmatched(value) ==
    /\ cache' = Put(cache, Last(lookups), value)
    /\ emitted' = IF ~Truthy(value) THEN emitted
                  ELSE Append(emitted, Enrich(Last(input), value, ParseFields(options.fields)))
    /\ UNCHANGED <<input, lookups, events>>

\* Mutation: a lookup that found nothing is not remembered.
LookupReturns_ForgetsAbsence(value) ==
    /\ cache' = IF value = PyNone THEN cache ELSE Put(cache, Last(lookups), value)
    /\ emitted' = Append(emitted, Enrich(Last(input), value, ParseFields(options.fields)))
    /\ UNCHANGED <<input, lookups, events>>

\* Lines 65-77 of stream once get_first has returned `value` for the record
\* being processed: the result is cached and the record is emitted.
LookupReturns(value) ==
    /\ cache' = Put(cache, Last(lookups), value)
    /\ emitted' = Append(emitted, Enrich(Last(input), value, ParseFields(options.fields)))
    /\ UNCHANGED <<input, lookups, events>>

\* The generator returns (StopIteration): list(...) completes, get_first
\* falls out of its loop and returns None.
Stop ==
    /\ gen_pc' = "done"
    /\ result' = PyNone
    /\ IF mode = "lookup"
       THEN LookupReturns(PyNone) /\ UNCHANGED pc
       ELSE pc' = "returned" /\ UNCHANGED <<lookupVars, events>>
    /\ UNCHANGED <<error, yielded>>

\* Mutation: stream_events collects the events and writes none of them until
\* the iterator is exhausted.
Yield_BuffersEvents(item) ==
    /\ yielded' = Append(yielded, item)
    /\ CASE mode \in {"iter", "export"} ->
            /\ gen_pc' = "suspended"
            /\ UNCHANGED <<pc, result, lookupVars, events>>
         [] mode = "lookup" ->
            /\ gen_pc' = "closed"
            /\ result' = item
            /\ LookupReturns(item)
            /\ UNCHANGED pc
         [] OTHER ->
            /\ gen_pc' = "closed"
            /\ pc' = "returned"
            /\ result' = item
            /\ UNCHANGED <<lookupVars, events>>
    /\ UNCHANGED error

\* Mutation: after the last record of a page the generator runs on and
\* fetches the next page before the consumer asks again.
Yield_Prefetches(item) ==
    /\ yielded' = Append(yielded, item)
    /\ CASE mode = "iter" ->
            /\ gen_pc' = IF idx = Len(PageItems(data)) THEN "page" ELSE "suspended"
            /\ UNCHANGED <<pc, result, lookupVars, events>>
         [] mode = "lookup" ->
            /\ gen_pc' = "closed"
            /\ result' = item
            /\ LookupReturns(item)
            /\ UNCHANGED pc
         [] OTHER ->
            /\ gen_pc' = "closed"
            /\ pc' = "returned"
            /\ result' = item
            /\ UNCHANGED <<lookupVars, events>>
    /\ UNCHANGED error

\* Mutation: get_first keeps the first item but drains the generator.
Yield_Drains(item) ==
    /\ yielded' = Append(yielded, item)
    /\ gen_pc' = "page"
    /\ result' = IF yielded = <<>> THEN item ELSE result
    /\ UNCHANGED <<pc, error, lookupVars, events>>

\* The generator hands item to its consumer: the draining caller keeps it and
\* the generator stays suspended; the loop of stream_events (lines 140-152)
\* writes its event before it asks again; get_first returns it at once and
\* drops the generator.
Yield(item) ==
    /\ yielded' = Append(yielded, item)
    /\ CASE mode = "iter" ->
            /\ gen_pc' = "suspended"
            /\ UNCHANGED <<pc, result, lookupVars, events>>
         [] mode = "export" ->
            /\ gen_pc' = "suspended"
            /\ events' = Append(events, EventOf(item, options.resource))
            /\ UNCHANGED <<pc, result, lookupVars>>
         [] mode = "lookup" ->
            /\ gen_pc' = "closed"
            /\ result' = item
            /\ LookupReturns(item)
            /\ UNCHANGED pc
         [] OTHER ->
            /\ gen_pc' = "closed"
            /\ pc' = "returned"
            /\ result' = item
            /\ UNCHANGED <<lookupVars, events>>
    /\ UNCHANGED error

\* Mutation: every request goes to the resource path.
RequestPath_AlwaysResource(url) == options.resource

\* Line 65: `next_url or resource`.
RequestPath(url) == IF TruthyScalar(url) THEN url.v ELSE options.resource

\* Line 65: `current_params if not next_url else None`.
RequestParams(url, prm) == IF ~TruthyScalar(url) THEN prm ELSE ParamsNone

\* Calling iter_resource only creates the generator: no line of its body runs.
IterCall ==
    /\ mode = "iter" /\ pc = "start"
    /\ pc' = "running"
    /\ gen_pc' = "created"
    /\ UNCHANGED <<inputVars, pulls, base_url, params, result, error, yielded, httpVars,
                   next_url, current_params, data, idx, lookupVars, events>>

\* The consumer pulls: the body starts (lines 62-63) or resumes after a yield.
DrainPull ==
    /\ mode \in {"iter", "export"} /\ pc = "running"
    /\ \/ /\ gen_pc = "created"
          /\ gen_pc' = "request"
          /\ next_url' = JNull
          /\ current_params' = DictOrEmpty(params)
       \/ /\ gen_pc = "suspended"
          /\ gen_pc' = "page"
          /\ UNCHANGED <<next_url, current_params>>
    /\ pulls' = pulls + 1
    /\ UNCHANGED <<inputVars, base_url, params, callVars, httpVars, data, idx, lookupVars, events>>

\* Lines 65-90 up to the loop over the page: one HTTP request and the
\* classification of its response.
GenRequest ==
    /\ gen_pc = "request"
    /\ Len(requests) < MaxRequests
    /\ \E resp \in Server(mode) :
        /\ requests' = Append(requests,
                RequestOf(base_url, RequestPath(next_url),
                          RequestParams(next_url, current_params)))
        /\ replies' = Append(replies, resp)
        /\ IF ~Ok(resp)
           THEN Raise(RequestError(resp)) /\ UNCHANGED <<data, idx>>
           ELSE IF ParseError(resp) # NoError
           THEN Raise(ParseError(resp)) /\ UNCHANGED <<data, idx>>
           ELSE /\ data' = resp.body
                /\ idx' = 1
                /\ gen_pc' = "page"
                /\ UNCHANGED <<callVars, lookupVars, events>>
    /\ UNCHANGED <<inputVars, pulls, base_url, params, next_url, current_params>>

\* Lines 72-73, 79-80, 84: the loop yields its next item.
GenYield ==
    /\ gen_pc = "page"
    /\ idx <= Len(PageItems(data))
    /\ Yield(PageItems(data)[idx])
    /\ idx' = idx + 1
    /\ UNCHANGED <<inputVars, pulls, base_url, params, httpVars, next_url, current_params, data>>

\* Mutation: the `break` after a bare list or a single object is missing, so
\* the loop requests the resource again.
GenPageEnd_NoBreak ==
    /\ gen_pc = "page"
    /\ idx > Len(PageItems(data))
    /\ IF IsEnvelope(data)
       THEN /\ next_url' = Get(data, "next")
            /\ IF ~TruthyScalar(Get(data, "next"))
               THEN Stop /\ UNCHANGED current_params
               ELSE /\ current_params' = ParamsNone
                    /\ gen_pc' = "request"
                    /\ UNCHANGED <<callVars, lookupVars, events>>
       ELSE /\ gen_pc' = "request"
            /\ UNCHANGED <<next_url, current_params, callVars, lookupVars, events>>
    /\ UNCHANGED <<inputVars, pulls, base_url, params, httpVars, data, idx>>

\* Lines 74-77, 81, 85: the loop is over; follow `next` or stop.
GenPageEnd ==
    /\ gen_pc = "page"
    /\ idx > Len(PageItems(data))
    /\ IF IsEnvelope(data)
       THEN /\ next_url' = Get(data, "next")
            /\ IF ~TruthyScalar(Get(data, "next"))
               THEN Stop /\ UNCHANGED current_params
               ELSE /\ current_params' = ParamsNone
                    /\ gen_pc' = "request"
                    /\ UNCHANGED <<callVars, lookupVars, events>>
       ELSE Stop /\ UNCHANGED <<next_url, current_params>>
    /\ UNCHANGED <<inputVars, pulls, base_url, params, httpVars, data, idx>>

\* ---------------------------------------------------- NetBoxClient.get_first
\* get_first creates the generator and its `for` pulls it at once.
GetFirstCall ==
    /\ mode = "first" /\ pc = "start"
    /\ pc' = "running"
    /\ gen_pc' = "request"
    /\ next_url' = JNull
    /\ current_params' = DictOrEmpty(params)
    /\ pulls' = 1
    /\ UNCHANGED <<inputVars, base_url, params, result, error, yielded, httpVars, data, idx,
                   lookupVars, events>>

\* ---------------------------------------------------- NetBoxClient.get_by_id
GetById ==
    /\ mode = "byid" /\ pc = "start"
    /\ \E resp \in Server(mode) :
        /\ requests' = Append(requests,
                RequestOf(base_url, RStrip(options.resource) \o "/" \o ObjectId \o "/", ParamsNone))
        /\ replies' = Append(replies, resp)
        /\ IF ~Ok(resp)
           THEN IF RequestError(resp).status = 404
                THEN pc' = "returned" /\ result' = PyNone /\ UNCHANGED error
                ELSE pc' = "raised" /\ error' = RequestError(resp) /\ UNCHANGED result
           ELSE IF resp.body.t = "nonjson"
                THEN /\ pc' = "raised"
                     /\ error' = NetBoxAPIError(MsgNonJson, NoStatus, RawDict(resp.body.s.v))
                     /\ UNCHANGED result
                ELSE pc' = "returned" /\ result' = resp.body /\ UNCHANGED error
    /\ UNCHANGED <<inputVars, pulls, base_url, params, yielded, genVars, lookupVars, events>>

\* ------------------------------------------------ NetBoxLookupCommand.stream
\* Lines 50-53: the client is built (int(timeout), then __post_init__), the
\* static filters are parsed, and the cache starts empty.
StreamStart ==
    /\ mode = "lookup" /\ pc = "start"
    /\ IF ~IsIntText(options.timeout)
       THEN /\ pc' = "raised"
            /\ error' = ValueError("invalid literal for int()")
            /\ UNCHANGED base_url
       ELSE IF options.netbox_url = ""
       THEN /\ pc' = "raised"
            /\ error' = ValueError("NetBox base URL must be provided")
            /\ UNCHANGED base_url
       ELSE IF ~BaseFilters(options.query).ok
       THEN /\ pc' = "raised"
            /\ error' = ValueError("Query filters must be a JSON object")
            /\ base_url' = Normalised(options.netbox_url)
       ELSE /\ pc' = "running"
            /\ base_url' = Normalised(options.netbox_url)
            /\ UNCHANGED error
    /\ UNCHANGED <<inputVars, pulls, params, result, yielded, httpVars, genVars, lookupVars, events>>

\* No get_first call of stream is in progress.
Idle == gen_pc \in {"none", "closed", "done"}

\* Lines 55-77 for the next input record, up to the get_first call on a cache
\* miss (the generator actions run the call; LookupReturns finishes the record).
StreamRecord ==
    /\ mode = "lookup" /\ pc = "running" /\ Idle
    /\ Len(input) < MaxRecords
    /\ \E record \in InputRecords :
        LET value == RecordGet(record, MatchField)
            cache_key == Str(value)
        IN  /\ input' = Append(input, record)
            /\ IF ~TruthyScalar(value)
               THEN /\ emitted' = Append(emitted, record)
                    /\ UNCHANGED <<cache, lookups, params, genVars, pulls>>
               ELSE IF cache_key \in DOMAIN cache
               THEN /\ emitted' = Append(emitted,
                            Enrich(record, cache[cache_key], ParseFields(options.fields)))
                    /\ UNCHANGED <<cache, lookups, params, genVars, pulls>>
               ELSE /\ lookups' = Append(lookups, cache_key)
                    /\ params' = LookupParams(BaseFilters(options.query).kv, cache_key)
                    /\ gen_pc' = "request"
                    /\ next_url' = JNull
                    /\ current_params' = DictOrEmpty(params')
                    /\ pulls' = 1
                    /\ UNCHANGED <<emitted, cache, data, idx>>
    /\ UNCHANGED <<inputVars, base_url, callVars, httpVars, events>>

\* The input is exhausted: stream returns.
StreamEnd ==
    /\ mode = "lookup" /\ pc = "running" /\ Idle
    /\ pc' = "returned"
    /\ UNCHANGED <<inputVars, pulls, base_url, params, result, error, yielded, httpVars, genVars,
                   lookupVars, events>>

\* ------------------------------------------------------ NetBoxInventoryInput
\* str.startswith("/") on the resources of the model.
StartsWithSlash(resource) == resource = SlashResource

\* Mutation: the timeout is converted only when the request is sent.
BadTimeout_Unchecked(timeout) == FALSE

\* int(timeout) raises on this stanza value (an unset timeout is not converted).
BadTimeout(timeout) == timeout # "" /\ ~IsIntText(timeout)

\* validate_input: the host calls it when the input is created or edited
\* through its API; a failure keeps the job from ever running.
ValidateInput ==
    /\ mode = "export" /\ pc = "start"
    /\ IF options.resource = ""
       THEN pc' = "raised" /\ error' = ValueError("A NetBox resource must be provided")
       ELSE IF StartsWithSlash(options.resource)
       THEN /\ pc' = "raised"
            /\ error' = ValueError("The NetBox resource must not start with a leading slash")
       ELSE IF ~ParseJson(options.query).ok
       THEN pc' = "raised" /\ error' = ValueError(ParseJson(options.query).message)
       ELSE IF BadTimeout(options.timeout)
       THEN pc' = "raised" /\ error' = ValueError("invalid literal for int()")
       ELSE pc' = "validated" /\ UNCHANGED error
    /\ UNCHANGED <<inputVars, pulls, base_url, params, result, yielded, httpVars, genVars,
                   lookupVars, events>>

\* stream_events, lines 123-138, for the one stanza of the job (the scheme is
\* not single-instance): the stanza is parsed, the client is built and the
\* iterator is created.  A stanza taken from the configuration file reaches
\* this point without validate_input having run.
StreamEvents ==
    /\ mode = "export" /\ pc \in {"start", "validated"}
    /\ IF ~ParseJson(options.query).ok
       THEN /\ pc' = "raised"
            /\ error' = ValueError(ParseJson(options.query).message)
            /\ UNCHANGED <<base_url, params, gen_pc>>
       ELSE IF BadTimeout(options.timeout)
       THEN /\ pc' = "raised"
            /\ error' = ValueError("invalid literal for int()")
            /\ UNCHANGED <<base_url, params, gen_pc>>
       ELSE IF options.netbox_url = ""
       THEN /\ pc' = "raised"
            /\ error' = ValueError("NetBox base URL must be provided")
            /\ UNCHANGED <<base_url, params, gen_pc>>
       ELSE /\ pc' = "running"
            /\ base_url' = Normalised(options.netbox_url)
            /\ params' = ParamsDict(ParseJson(options.query).kv)
            /\ gen_pc' = "created"
            /\ UNCHANGED error
    /\ UNCHANGED <<inputVars, pulls, result, yielded, httpVars, next_url, current_params, data,
                   idx, lookupVars, events>>

\* _guess_event_time(payload), called on its own.
GuessEventTimeCall ==
    /\ mode = "guess" /\ pc = "start"
    /\ pc' = "returned"
    /\ result' = IF GuessEventTime(guess_payload) = NoTime THEN PyNone
                 ELSE Sca(JNum(GuessEventTime(guess_payload)))
    /\ UNCHANGED <<inputVars, pulls, base_url, params, error, yielded, httpVars, genVars,
                   lookupVars, events>>

Next ==
    \/ IterCall
    \/ DrainPull
    \/ GenRequest
    \/ GenYield
    \/ GenPageEnd
    \/ GetFirstCall
    \/ GetById
    \/ StreamStart
    \/ StreamRecord
    \/ StreamEnd
    \/ ValidateInput
    \/ StreamEvents
    \/ GuessEventTimeCall

Spec == Init /\ [][Next]_vars

\* An export job on its own: stream_events drains iter_resource with a `for`
\* loop that keeps pulling, the server answers every request, and the
\* interpreter runs the next statement of the job and of the generator, so
\* every step of the job that can be taken is taken.  Whether the host has
\* validate_input run first is up to the host.
InitDrain == Init /\ mode = "export"

NextDrain ==
    \/ ValidateInput
    \/ StreamEvents
    \/ DrainPull
    \/ GenRequest
    \/ GenYield
    \/ GenPageEnd

DrainSpec ==
    /\ InitDrain
    /\ [][NextDrain]_vars
    /\ WF_vars(StreamEvents)
    /\ WF_vars(DrainPull)
    /\ WF_vars(GenRequest)
    /\ WF_vars(GenYield)
    /\ WF_vars(GenPageEnd)

\* ======================================================================
\* Properties
\* ======================================================================
\* Shapes of a received response, read off the response itself.
HasBothKeys(r) == r.body.hasResults /\ r.body.vals["next"] # Absent
EnvelopeReply(r) == r.status = 200 /\ r.body.t = "object" /\ HasBothKeys(r)
PlainReply(r) == r.status = 200 /\ r.body.t = "object" /\ ~HasBothKeys(r)
ListReply(r) == r.status = 200 /\ r.body.t = "array"
ScalarReply(r) == r.status = 200 /\ r.body.t = "scalar"
FailedReply(r) == r.status >= 400

NextOf(r) == r.body.vals["next"]
EmptyNext(r) == NextOf(r) = JNull \/ NextOf(r) = JStr("")

AllEnvelopes(rs) == \A i \in 1..Len(rs) : EnvelopeReply(rs[i])

\* The records of the pages rs, page by page.
RECURSIVE ConcatResults(_)
ConcatResults(rs) ==
    IF rs = <<>> THEN <<>> ELSE rs[1].body.seq \o ConcatResults(Tail(rs))

IsPrefix(p, q) == Len(p) <= Len(q) /\ SubSeq(q, 1, Len(p)) = p

Front(q) == SubSeq(q, 1, Len(q) - 1)

Draining == mode = "iter"
Iterating == mode \in {"iter", "first"}

\* C1 (as stated): a drain that ended after N envelope pages ended on the page
\* whose `next` is null, every earlier page having had a non-null `next`, and
\* yielded the concatenation of the N pages with N requests.
C1_DrainStopsOnlyAtNullNext ==
    (Draining /\ pc = "returned" /\ replies # <<>> /\ AllEnvelopes(replies)) =>
        /\ NextOf(Last(replies)) = JNull
        /\ \A i \in 1..(Len(replies) - 1) : NextOf(replies[i]) # JNull
        /\ yielded = ConcatResults(replies)
        /\ Len(requests) = Len(replies)

\* C1 (amended): over envelope pages whose `next` is a non-empty cursor on
\* pages 1..N-1 and null or empty on page N, the drain yields the pages'
\* results in page order and index order with exactly N requests: it never
\* raises, what it has yielded is always a prefix of the concatenation, no page
\* is requested after one with a null or empty `next`, and it ends exactly on
\* such a page with everything yielded.
C1_DrainYieldsConcatenation ==
    (Draining /\ replies # <<>> /\ AllEnvelopes(replies)) =>
        /\ pc # "raised"
        /\ Len(requests) = Len(replies)
        /\ \A i \in 1..(Len(replies) - 1) : ~EmptyNext(replies[i])
        /\ IsPrefix(yielded, ConcatResults(replies))
        /\ (gen_pc \in {"request", "suspended"}) =>
                IsPrefix(ConcatResults(Front(replies)), yielded)
        /\ gen_pc = "request" => yielded = ConcatResults(replies)
        /\ pc = "returned" =>
                (EmptyNext(Last(replies)) /\ yielded = ConcatResults(replies))
        /\ (EmptyNext(Last(replies)) /\ yielded = ConcatResults(replies)) =>
                gen_pc \in {"page", "suspended", "done"}

C1_Witness ==
    /\ Draining /\ pc = "returned" /\ AllEnvelopes(replies)
    /\ Len(replies) = 3
    /\ \A i \in 1..3 : Len(replies[i].body.seq) = 2
    /\ Len(yielded) = 6

\* C2: the caller's filter parameters go out on the first request only: the
\* first request targets the resource path with the caller's key/value pairs,
\* every later request targets the `next` value of the page before it and
\* carries no parameters.
C2_ParamsOnFirstRequestOnly ==
    Iterating =>
        \A i \in 1..Len(requests) :
            IF i = 1
            THEN /\ requests[i].path = ResourcePath
                 /\ ~requests[i].params.none
                 /\ requests[i].params.kv = params.kv
            ELSE /\ requests[i].path = NextOf(replies[i - 1]).v
                 /\ requests[i].params = ParamsNone

C2_Witness ==
    /\ Iterating /\ params.kv # {}
    /\ Len(requests) = 3
    /\ requests[2].path = CursorRel /\ requests[3].path = CursorAbs

\* C3: when the first response is a bare list, the drain yields exactly its
\* elements in order with one request and stops.
C3_BareListSinglePage ==
    (Draining /\ replies # <<>> /\ ListReply(replies[1])) =>
        /\ Len(requests) = 1
        /\ pc # "raised"
        /\ gen_pc \in {"page", "suspended", "done"}
        /\ IsPrefix(yielded, replies[1].body.seq)
        /\ pc = "returned" => yielded = replies[1].body.seq

C3_Witness ==
    /\ Draining /\ pc = "returned" /\ Len(replies) = 1 /\ ListReply(replies[1])
    /\ Len(yielded) = 2 /\ yielded[1] # yielded[2]

\* C4: a mapping that lacks `results` or `next` is yielded whole as one
\* record, and no request follows it.
C4_PlainMappingIsOneRecord ==
    Draining =>
        \A i \in 1..Len(replies) :
            PlainReply(replies[i]) =>
                /\ i = Len(replies) /\ Len(requests) = i
                /\ pc # "raised"
                /\ gen_pc \in {"page", "suspended", "done"}
                /\ IsPrefix(yielded, ConcatResults(Front(replies)) \o <<replies[i].body>>)
                /\ IsPrefix(ConcatResults(Front(replies)), yielded)
                /\ pc = "returned" =>
                        yielded = ConcatResults(Front(replies)) \o <<replies[i].body>>

C4_Witness ==
    /\ Draining /\ pc = "returned" /\ Len(replies) = 2
    /\ PlainReply(replies[2])
    /\ replies[2].body.hasResults /\ replies[2].body.seq # <<>>
    /\ Last(yielded) = replies[2].body

\* C5: a successful response whose body is a number, string, boolean or null
\* makes iter_resource raise the "unexpected response structure" error, and
\* nothing is yielded from it.
C5_ScalarBodyRaises ==
    (Iterating /\ replies # <<>> /\ ScalarReply(Last(replies))) =>
        /\ gen_pc = "raised" /\ pc = "raised"
        /\ error.message = MsgStructure
        /\ yielded = ConcatResults(Front(replies))

C5_Witness ==
    /\ Iterating /\ Len(replies) = 2 /\ ScalarReply(replies[2])
    /\ replies[2].body = Sca(JNull)
    /\ pc = "raised"

\* A JSON body that Python takes as true.
NonEmptyJson(b) ==
    /\ b.t # "nonjson"
    /\ b \notin {EmptyDict, Arr(<<>>), Sca(JNull), Sca(JNum("0")), Sca(JStr("")), Sca(JBool("false"))}

\* The request of get_by_id failed with 404, which get_by_id swallows.
Swallowed404 == mode = "byid" /\ Last(replies).status = 404

\* C6 (as stated): the error raised for a non-success status carries the status
\* code and the parsed JSON body (nothing when that body is empty), or the raw
\* text under a fallback key when the body is not JSON.
C6_ErrorCarriesJsonOrRawText ==
    (replies # <<>> /\ FailedReply(Last(replies)) /\ pc = "raised") =>
        /\ error.status = Last(replies).status
        /\ error.payload = CASE Last(replies).body.t = "nonjson" ->
                                    RawDict(Last(replies).body.s.v)
                             [] NonEmptyJson(Last(replies).body) -> Last(replies).body
                             [] OTHER -> EmptyDict

\* C6 (amended): the error raised for a non-success status carries the status
\* code and the parsed JSON body when the body is JSON and non-empty, and an
\* empty mapping otherwise (the raw text of a non-JSON body is not carried).
C6_ErrorCarriesStatusAndJsonBody ==
    (replies # <<>> /\ FailedReply(Last(replies)) /\ ~Swallowed404) =>
        /\ pc = "raised"
        /\ error.message = MsgStatus
        /\ error.status = Last(replies).status
        /\ error.payload = IF NonEmptyJson(Last(replies).body)
                           THEN Last(replies).body
                           ELSE EmptyDict

C6_Witness ==
    /\ replies # <<>> /\ Last(replies).status = 500
    /\ Last(replies).body = NonJSON(HtmlText)
    /\ pc = "raised" /\ error.status = 500 /\ error.payload = EmptyDict

\* What _request raises for the last response.
RaisedForLast ==
    [type |-> "NetBoxAPIError", message |-> MsgStatus, status |-> Last(replies).status,
     payload |-> IF NonEmptyJson(Last(replies).body) THEN Last(replies).body ELSE EmptyDict]

\* A 404 met by iter_resource, on whichever page, is raised to the caller.
Raised404WhenIterating ==
    (Iterating /\ replies # <<>> /\ Last(replies).status = 404) =>
        /\ gen_pc = "raised" /\ pc = "raised"
        /\ error = RaisedForLast

\* C7 (as stated): get_by_id returns None exactly when its request fails with
\* 404 and re-raises every other non-success status; iter_resource and
\* get_first raise on a 404.
C7_NoneExactlyOn404 ==
    /\ (mode = "byid" /\ pc # "start") =>
            /\ Len(requests) = 1
            /\ (pc = "returned" /\ result = PyNone) <=> (Last(replies).status = 404)
            /\ (FailedReply(Last(replies)) /\ Last(replies).status # 404) =>
                    (pc = "raised" /\ error = RaisedForLast)
    /\ Raised404WhenIterating

\* C7 (amended): get_by_id returns None whenever its single request fails with
\* 404, and otherwise only for a successful response whose body is JSON null;
\* it re-raises the API error unchanged for every other non-success status;
\* iter_resource and get_first raise on a 404.
C7_NoneOn404 ==
    /\ (mode = "byid" /\ pc # "start") =>
            /\ Len(requests) = 1
            /\ Last(replies).status = 404 =>
                    (pc = "returned" /\ result = PyNone /\ error = NoError)
            /\ (pc = "returned" /\ result = PyNone) =>
                    \/ Last(replies).status = 404
                    \/ Last(replies) = [status |-> 200, body |-> Sca(JNull)]
            /\ (FailedReply(Last(replies)) /\ Last(replies).status # 404) =>
                    (pc = "raised" /\ error = RaisedForLast)
    /\ Raised404WhenIterating

C7_Witness ==
    /\ mode = "byid" /\ pc = "returned" /\ result = PyNone
    /\ Last(replies).status = 404 /\ Last(replies).body = DetailBody

\* The records a received page supplies.
RecordsOf(r) ==
    CASE EnvelopeReply(r) -> r.body.seq
      [] ListReply(r) -> r.body.seq
      [] PlainReply(r) -> <<r.body>>
      [] OTHER -> <<>>

\* C8: get_first issues no request after the page that supplied the record it
\* returns: every page before the last one requested supplied no record, and
\* once a page supplies one, get_first returns its first record.
C8_GetFirstShortCircuits ==
    mode = "first" =>
        /\ \A i \in 1..(Len(requests) - 1) : RecordsOf(replies[i]) = <<>>
        /\ (replies # <<>> /\ RecordsOf(Last(replies)) # <<>>) =>
                /\ gen_pc \in {"page", "closed"}
                /\ gen_pc = "closed" =>
                        (pc = "returned" /\ result = RecordsOf(Last(replies))[1])
        /\ pc = "returned" => Len(yielded) <= 1

C8_Witness ==
    /\ mode = "first" /\ pc = "returned" /\ Len(requests) = 1
    /\ EnvelopeReply(replies[1]) /\ NextOf(replies[1]) = JStr(CursorAbs)
    /\ Len(replies[1].body.seq) = 2
    /\ result = replies[1].body.seq[1]

\* A page without records: an empty bare list or an envelope with no results.
ZeroRecordPage(r) == (EnvelopeReply(r) \/ ListReply(r)) /\ r.body.seq = <<>>
EndsChain(r) == ListReply(r) \/ EmptyNext(r)

\* C9: get_first over pages that supply no record returns None and raises
\* nothing.
C9_GetFirstNoneOnEmpty ==
    (mode = "first" /\ replies # <<>> /\ \A i \in 1..Len(replies) : ZeroRecordPage(replies[i])) =>
        /\ pc # "raised" /\ error = NoError
        /\ yielded = <<>>
        /\ EndsChain(Last(replies)) =>
                /\ gen_pc \in {"page", "done"}
                /\ gen_pc = "done" => (pc = "returned" /\ result = PyNone)
        /\ pc = "returned" => (EndsChain(Last(replies)) /\ result = PyNone)

C9_Witness ==
    /\ mode = "first" /\ pc = "returned" /\ result = PyNone
    /\ Len(replies) = 2
    /\ \A i \in 1..2 : EnvelopeReply(replies[i]) /\ replies[i].body.seq = <<>>

\* The stringified match value of an input record that has a non-empty one.
HasMatchValue(record) ==
    record["host"] \notin {Absent, JNull, JStr(""), JNum("0"), JBool("false")}
MatchKey(record) == record["host"].v

\* The field-name list the options configure.
ConfiguredFields ==
    CASE options.fields = <<"site", " name">> -> <<"site", "name">>
      [] options.fields = <<"site">> -> <<"site">>
      [] OTHER -> <<>>

\* The JSON text of the API records of the model.
JsonText(payload) ==
    CASE payload = ItemA -> "{\"name\": \"sw1\", \"site\": \"nyc\"}"
      [] payload = ItemB -> "{\"name\": \"sw2\"}"
      [] OTHER -> "{}"

\* The record the command emits for `record` when the lookup outcome is
\* `payload`: unchanged when nothing (or an empty record) was found, otherwise
\* the configured fields under netbox_<f>, or the JSON text under `netbox`
\* unless that key is taken.
Outcome(record, payload) ==
    IF payload \in {PyNone, EmptyDict} THEN record
    ELSE IF ConfiguredFields # <<>>
    THEN [k \in RecordKeys |->
            CASE k = "netbox_site" /\ \E i \in 1..Len(ConfiguredFields) : ConfiguredFields[i] = "site" ->
                    (IF payload.vals["site"] = Absent THEN JNull ELSE payload.vals["site"])
              [] k = "netbox_name" /\ \E i \in 1..Len(ConfiguredFields) : ConfiguredFields[i] = "name" ->
                    (IF payload.vals["name"] = Absent THEN JNull ELSE payload.vals["name"])
              [] OTHER -> record[k]]
    ELSE IF record["netbox"] = Absent
    THEN [k \in RecordKeys |-> IF k = "netbox" THEN JStr(JsonText(payload)) ELSE record[k]]
    ELSE record

\* C10: within one run, two input records whose non-empty match values
\* stringify to the same key cause exactly one get_first call between them,
\* also when that call found nothing, and both are emitted with the outcome of
\* that one call; the cache has one entry per key looked up and no other.
C10_OneLookupPerKey ==
    mode = "lookup" =>
        /\ \A i, j \in 1..Len(lookups) : lookups[i] = lookups[j] => i = j
        /\ DOMAIN cache \subseteq {lookups[i] : i \in 1..Len(lookups)}
        /\ DOMAIN cache \subseteq {MatchKey(input[i]) : i \in {n \in 1..Len(input) : HasMatchValue(input[n])}}
        /\ \A i, j \in 1..Len(emitted) :
            (i < j /\ HasMatchValue(input[i]) /\ HasMatchValue(input[j])
                /\ MatchKey(input[i]) = MatchKey(input[j])) =>
                /\ Cardinality({n \in 1..Len(lookups) : lookups[n] = MatchKey(input[i])}) = 1
                /\ MatchKey(input[i]) \in DOMAIN cache
                /\ emitted[i] = Outcome(input[i], cache[MatchKey(input[i])])
                /\ emitted[j] = Outcome(input[j], cache[MatchKey(input[j])])

C10_Witness ==
    /\ mode = "lookup" /\ Len(emitted) = 3
    /\ input[1]["host"] = JStr("7") /\ input[3]["host"] = JNum("7")
    /\ lookups = <<"7">>
    /\ cache["7"] = PyNone
    /\ Len(requests) = 2

\* C11: a step of stream that takes an input record whose match field is
\* absent, or whose match value is empty or otherwise falsy, emits that record
\* exactly as it arrived, calls no lookup (no get_first call, no HTTP request,
\* no generator started) and leaves the cache as it was.
C11_FalsyMatchPassesThrough ==
    [][(mode = "lookup" /\ Len(input') = Len(input) + 1 /\ ~HasMatchValue(input'[Len(input')])) =>
            /\ emitted' = Append(emitted, input'[Len(input')])
            /\ lookups' = lookups
            /\ cache' = cache
            /\ requests' = requests
            /\ gen_pc' = gen_pc]_vars

C11_Witness ==
    /\ mode = "lookup" /\ Len(input) = 3
    /\ input[1]["host"] = JStr("sw1") /\ input[2]["host"] = Absent /\ input[3]["host"] = JStr("")
    /\ emitted[2] = input[2] /\ emitted[3] = input[3]
    /\ lookups = <<"sw1">> /\ DOMAIN cache = {"sw1"}
    /\ Len(requests) = 1

\* The emitted records whose lookup (fresh or cached) gave a mapping.
GotApiRecord(i) ==
    /\ HasMatchValue(input[i])
    /\ MatchKey(input[i]) \in DOMAIN cache
    /\ cache[MatchKey(input[i])].t = "object"
ApiRecordOf(i) == cache[MatchKey(input[i])]

\* The value of field f of an API record, null when it lacks f.
FieldOrNull(payload, f) ==
    IF payload.vals[f] = Absent THEN JNull ELSE payload.vals[f]

FieldsFilled(i) ==
    \A n \in 1..Len(ConfiguredFields) :
        emitted[i]["netbox_" \o ConfiguredFields[n]] =
            FieldOrNull(ApiRecordOf(i), ConfiguredFields[n])

\* C12 as stated: with a field-name list configured, every emitted record
\* whose lookup returned an API record -- any mapping, the empty one included
\* -- carries under netbox_<f>, for every configured f, the API record's value
\* of f or null.
C12_EveryApiRecordFillsFields ==
    (mode = "lookup" /\ ConfiguredFields # <<>>) =>
        \A i \in 1..Len(emitted) : GotApiRecord(i) => FieldsFilled(i)

\* C12: with a field-name list configured, every emitted record whose lookup
\* returned a non-empty API record carries under netbox_<f>, for every
\* configured f, the API record's value of f, or null when the API record
\* lacks f, whatever the input held at that key; a record whose lookup
\* returned the empty mapping is emitted as it arrived.
C12_NonEmptyApiRecordFillsFields ==
    (mode = "lookup" /\ ConfiguredFields # <<>>) =>
        \A i \in 1..Len(emitted) : GotApiRecord(i) =>
            IF ApiRecordOf(i) = EmptyDict THEN emitted[i] = input[i] ELSE FieldsFilled(i)

C12_Witness ==
    /\ mode = "lookup" /\ ConfiguredFields = <<"site", "name">>
    /\ Len(emitted) >= 1
    /\ input[1]["host"] = JNum("7") /\ input[1]["netbox_site"] = JStr("old")
    /\ cache["7"] = ItemB
    /\ emitted[1]["netbox_site"] = JNull /\ emitted[1]["netbox_name"] = JStr("sw2")

\* Record i was emitted with the JSON text of its API record under `netbox`
\* if the input had no such key, and exactly as it arrived otherwise.
NetboxWritten(i) ==
    emitted[i] = [k \in RecordKeys |->
                    IF k = "netbox" /\ input[i]["netbox"] = Absent
                    THEN JStr(JsonText(ApiRecordOf(i)))
                    ELSE input[i][k]]

\* C13 as stated: with no field-name list, every emitted record whose lookup
\* returned an API record -- any mapping, the empty one included -- has the
\* JSON text of that record under `netbox` unless the input already had the
\* key, and no other key differs from the input.
C13_EveryApiRecordSerialized ==
    (mode = "lookup" /\ ConfiguredFields = <<>>) =>
        \A i \in 1..Len(emitted) : GotApiRecord(i) => NetboxWritten(i)

\* C13: with no field-name list, every emitted record whose lookup returned a
\* non-empty API record has the JSON text of the full API record under
\* `netbox` if the input had no `netbox` key, keeps the input's `netbox` value
\* if it had one, and differs from the input in no other key; a record whose
\* lookup returned the empty mapping is emitted as it arrived.
C13_NonEmptyApiRecordSerialized ==
    (mode = "lookup" /\ ConfiguredFields = <<>>) =>
        \A i \in 1..Len(emitted) : GotApiRecord(i) =>
            IF ApiRecordOf(i) = EmptyDict THEN emitted[i] = input[i] ELSE NetboxWritten(i)

C13_Witness ==
    /\ mode = "lookup" /\ options.fields = <<>> /\ Len(emitted) >= 2
    /\ input[1]["host"] = JStr("7") /\ input[1]["netbox"] = Absent
    /\ input[2]["host"] = JNum("7") /\ input[2]["netbox"] = JStr("old")
    /\ cache["7"] = ItemA
    /\ emitted[1]["netbox"] = JStr("{\"name\": \"sw1\", \"site\": \"nyc\"}")
    /\ emitted[2] = input[2]

\* Emitted record i is input record i, as it arrived or enriched by the
\* outcome of the lookup for its key.
Corresponds(i) ==
    IF HasMatchValue(input[i]) /\ MatchKey(input[i]) \in DOMAIN cache
    THEN emitted[i] = Outcome(input[i], cache[MatchKey(input[i])])
    ELSE emitted[i] = input[i]

\* C14: at every point of a run of stream the emitted records are, one for
\* one and in the same order, the (possibly enriched) records of a prefix of
\* the input taken so far, at most the record being looked up is pending, and
\* a run that returned has emitted exactly as many records as it took.
C14_OneInOneOut ==
    mode = "lookup" =>
        /\ Len(emitted) <= Len(input)
        /\ Len(input) - Len(emitted) <= 1
        /\ \A i \in 1..Len(emitted) : Corresponds(i)
        /\ pc = "returned" => Len(emitted) = Len(input)

C14_Witness ==
    /\ mode = "lookup" /\ pc = "returned"
    /\ Len(input) = 3 /\ Len(emitted) = 3
    /\ input[1]["host"] = JStr("7") /\ cache["7"] = PyNone /\ emitted[1] = input[1]
    /\ input[2]["host"] = Absent /\ emitted[2] = input[2]
    /\ input[3]["host"] = JStr("sw1") /\ cache["sw1"] = ItemA /\ emitted[3] # input[3]

\* The newest response of an enrichment run is a non-success status.
LookupFailed == mode = "lookup" /\ replies # <<>> /\ FailedReply(replies[Len(replies)])

\* C19: when a lookup of stream fails with a non-success status (404
\* included), the run ends with that error: the key of the failed lookup has
\* no cache entry, the record being processed is not emitted, the records
\* emitted before it stay as they were, and from then on no request is sent,
\* no record is taken or emitted and the cache does not change.
C19_LookupFailureIsTerminal ==
    /\ [](LookupFailed =>
            /\ pc = "raised"
            /\ error.status = replies[Len(replies)].status
            /\ lookups[Len(lookups)] = MatchKey(input[Len(input)])
            /\ lookups[Len(lookups)] \notin DOMAIN cache
            /\ Len(emitted) = Len(input) - 1
            /\ \A i \in 1..Len(emitted) : Corresponds(i))
    /\ [][LookupFailed => UNCHANGED <<requests, replies, input, emitted, cache, lookups, pc>>]_vars

C19_Witness ==
    /\ LookupFailed /\ replies[Len(replies)].status = 404
    /\ Len(requests) = 2 /\ Len(input) = 2 /\ Len(emitted) = 1
    /\ emitted[1] # input[1]
    /\ DOMAIN cache = {MatchKey(input[1])}

\* All records of the pages received, in page order.
RECURSIVE ConcatRecords(_)
ConcatRecords(rs) ==
    IF rs = <<>> THEN <<>> ELSE RecordsOf(rs[1]) \o ConcatRecords(Tail(rs))

\* C17: iter_resource does no work ahead of its consumer.  No request is sent
\* before the first pull; the consumer is never handed more records than it
\* asked for; a request is sent only while a pull is waiting for a record
\* (pulls = records handed over + 1) and every record of every page received
\* so far has been handed over; and each request is answered before anything
\* else happens, so at most one is outstanding.
C17_NoRequestAheadOfConsumer ==
    /\ [](Iterating =>
            /\ (pulls = 0 => requests = <<>>)
            /\ Len(yielded) <= pulls
            /\ Len(replies) = Len(requests))
    /\ [][(Iterating /\ requests' # requests) =>
            /\ pulls = Len(yielded) + 1
            /\ yielded = ConcatRecords(replies)
            /\ Len(requests') = Len(requests) + 1
            /\ Len(replies') = Len(requests')]_vars

C17_Witness ==
    /\ Draining /\ Len(requests) = 2 /\ pulls = 3
    /\ EnvelopeReply(replies[1]) /\ Len(replies[1].body.seq) = 2
    /\ yielded = replies[1].body.seq
    /\ gen_pc = "page"

\* The configuration faults of a unit of work, read off its options.
EmptyBaseUrl == options.netbox_url = ""
MalformedQuery == options.query \in {"[1]", "{site"}
NonIntegerTimeout == options.timeout = "abc"
LeadingSeparator == options.resource = "/dcim/devices"
UnitOfWork == mode \in {"lookup", "export"}

\* The unit has sent nothing and is either not yet started or ended in an error.
StoppedBeforeRequests ==
    /\ requests = <<>>
    /\ pc \in {"start", "validated", "raised"}
    /\ pc = "raised" => error.type = "ValueError"

\* C15 as stated: an enrichment run or an export job whose configuration has
\* an empty base URL, a malformed filter text, a non-integer timeout or a
\* resource with a leading separator never sends a request: it ends in the
\* configuration error first.
C15_EveryConfigErrorBeforeRequests ==
    (UnitOfWork /\ (EmptyBaseUrl \/ MalformedQuery \/ NonIntegerTimeout \/ LeadingSeparator)) =>
        StoppedBeforeRequests

\* C15: an enrichment run or an export job whose configuration has an empty
\* base URL, a malformed filter text or a non-integer timeout never sends a
\* request: it ends in the configuration error first.  A resource with a
\* leading separator is rejected by validate_input alone (a job that passed
\* validation has none); stream and stream_events accept it, and their
\* requests go to the resource with the separator stripped.
C15_ConfigErrorsBeforeRequests ==
    UnitOfWork =>
        /\ (EmptyBaseUrl \/ MalformedQuery \/ NonIntegerTimeout) => StoppedBeforeRequests
        /\ (LeadingSeparator /\ mode = "export") => pc # "validated"
        /\ (LeadingSeparator /\ requests # <<>>) =>
                requests[1].url = "http://nb/api/dcim/devices"

C15_Witness ==
    /\ mode = "export" /\ EmptyBaseUrl
    /\ pc = "raised" /\ error.message = "NetBox base URL must be provided"
    /\ requests = <<>>

\* A value qualifies as a timestamp when it is a string that, surrounding
\* whitespace aside, has one of the two accepted formats; its instant.
Qualifies(v) ==
    v \in {JStr("2024-01-02T03:04:05.250000+00:00"), JStr("2024-01-02T03:04:06+00:00"),
           JStr(" 2024-01-02T03:04:06+00:00 ")}
StampOf(v) ==
    IF v = JStr("2024-01-02T03:04:05.250000+00:00") THEN "1704164645.25" ELSE "1704164646.0"

\* The instant of the first qualifying key in priority order, "None" if none.
ExpectedTime(p) ==
    CASE Qualifies(p.vals["last_updated"]) -> StampOf(p.vals["last_updated"])
      [] ~Qualifies(p.vals["last_updated"]) /\ Qualifies(p.vals["last_update"]) ->
            StampOf(p.vals["last_update"])
      [] ~Qualifies(p.vals["last_updated"]) /\ ~Qualifies(p.vals["last_update"])
            /\ Qualifies(p.vals["created"]) -> StampOf(p.vals["created"])
      [] OTHER -> "None"

\* C16: _guess_event_time returns the instant of the first of last_updated,
\* last_update, created that is present, a string and in one of the two
\* formats -- a key of higher priority that is missing, not a string or
\* unparseable does not stop the scan -- and None when no key qualifies; the
\* event written for a record carries that instant, or no time at all.
C16_FirstQualifyingTimestamp ==
    /\ (mode = "guess" /\ pc = "returned") =>
            result = IF ExpectedTime(guess_payload) = "None" THEN PyNone
                     ELSE Sca(JNum(ExpectedTime(guess_payload)))
    /\ mode = "export" =>
            /\ Len(events) = Len(yielded)
            /\ \A i \in 1..Len(events) : events[i].time = ExpectedTime(yielded[i])

C16_Witness ==
    /\ mode = "guess" /\ pc = "returned"
    /\ guess_payload.vals["last_updated"] = JStr("yesterday")
    /\ guess_payload.vals["last_update"] = JNum("1704164645")
    /\ guess_payload.vals["created"] = JStr("2024-01-02T03:04:05.250000+00:00")
    /\ result = Sca(JNum("1704164645.25"))

\* The newest response of an export job is a failure: a non-success status,
\* a body that is not JSON, or a body that is neither a mapping nor a list.
ExportFailed ==
    /\ mode = "export" /\ replies # <<>>
    /\ \/ FailedReply(replies[Len(replies)])
       \/ ScalarReply(replies[Len(replies)])
       \/ replies[Len(replies)].body.t = "nonjson"

\* The JSON text of the API records an export job receives.
EventText(item) ==
    CASE item.vals["name"] = JStr("sw1") ->
            "{\"name\": \"sw1\", \"last_updated\": \"2024-01-02T03:04:05.250000+00:00\", "
                \o "\"created\": \"2024-01-02T03:04:06+00:00\"}"
      [] item.vals["name"] = JNum("7") ->
            "{\"name\": 7, \"last_updated\": \"yesterday\", "
                \o "\"created\": \" 2024-01-02T03:04:06+00:00 \"}"
      [] OTHER -> "{\"name\": \"sw2\"}"

\* The events are those of the records rs, one each and in order.
EventsAre(rs) ==
    /\ Len(events) = Len(rs)
    /\ \A i \in 1..Len(rs) : events[i].data = EventText(rs[i])

\* C18: when the request or response for page k of an export job fails, the
\* job ends with the client's error as raised; exactly one event has been
\* written for every record of pages 1..k-1, in page order, and none for the
\* failing page; an event once written stays written.
C18_FailureKeepsEarlierEvents ==
    /\ [](ExportFailed =>
            /\ pc = "raised"
            /\ error.type = "NetBoxAPIError"
            /\ FailedReply(replies[Len(replies)]) => error.status = replies[Len(replies)].status
            /\ EventsAre(ConcatRecords(Front(replies))))
    /\ [][mode = "export" => IsPrefix(events, events')]_vars
    /\ [][ExportFailed => UNCHANGED <<events, requests, pc>>]_vars

C18_Witness ==
    /\ ExportFailed /\ Len(replies) = 3
    /\ Len(replies[1].body.seq) = 2 /\ Len(replies[2].body.seq) = 1
    /\ replies[3].status = 500
    /\ Len(events) = 3 /\ events[3].data = "{\"name\": \"sw2\"}"
    /\ pc = "raised"

\* Every page received so far is an envelope whose `next` names a further
\* page: the chain of cursors has not ended.
ChainContinues ==
    \A i \in 1..Len(replies) : EnvelopeReply(replies[i]) /\ ~EmptyNext(replies[i])

\* The drain has followed the chain through every page the model lets the
\* server give, and is about to ask for the next.
ChainOutlastsModel ==
    Len(requests) = MaxRequests /\ ChainContinues /\ gen_pc = "request"

\* The run drains iter_resource to its end.
FullDrain == mode \in {"iter", "export"}

\* C20: a full drain of iter_resource whose requests are all answered ends
\* (it returns or raises) once the chain of pages ends -- at a null or empty
\* `next`, a body that is not an envelope, or a failure; it can run on only
\* along a chain of envelopes that each name a further page.  As long as the
\* chain continues the drain has not ended and its next request goes to the
\* cursor of the newest page, whether or not that cursor was requested
\* before: no record of the cursors followed is kept.
C20_DrainEndsWithChain ==
    /\ FullDrain ~> (pc \in {"returned", "raised"} \/ ChainOutlastsModel)
    /\ [](FullDrain /\ replies # <<>> /\ pc \in {"returned", "raised"} => ~ChainContinues)
    /\ [][(FullDrain /\ requests # <<>> /\ requests' # requests) =>
            /\ ChainContinues
            /\ requests'[Len(requests')].path = NextOf(replies[Len(replies)]).v]_vars

C20_Witness ==
    /\ FullDrain /\ pc = "returned"
    /\ Len(requests) = 3
    /\ requests[2].url = requests[3].url
    /\ EmptyNext(replies[3])

====
